---- MODULE Spec2Model ----
(***************************************************************************)
(* webcamize: a tethered camera's preview stream is captured frame by      *)
(* frame, optionally converted to a raw pixel format, and written to a     *)
(* V4L2 loopback device or to a file.  The module models main(), cli(),    *)
(* the V4L2 helpers and the converter of the two program versions in the   *)
(* repository: 2.0.1 (src/unnamed/part_004, "v201") and 2.0.0              *)
(* (src/webcamize.c, "v200").                                              *)
(***************************************************************************)
EXTENDS Integers, Sequences, FiniteSets, TLC

(* ---------------------------------------------------------------- bounds *)
\* loop iterations (captures) explored in one run of main
MaxFrames == 3
\* re-entries of main from cleanup (2.0.0 --wait) explored
MaxRestarts == 1
\* library and system calls that fail inside the main loop in one run
MaxFaults == 1

(* ------------------------------------------------------ program constants *)
GP_OK == 0
STDOUT_FILENO == 1
NSEC_PER_SEC == 1000000000
CLOCKS_PER_SEC == 1000000
USEC_PER_SEC == 1000000
DEFAULT_TARGET_FPS == 60
DEFAULT_DESIRED_FPS == 90
DEFAULT_WIDTH == 640
DEFAULT_HEIGHT == 480
EXEC_PATH_MAX == 128
YUYV_BYTES_PER_PIXEL == 2
RGB24_BYTES_PER_PIXEL == 3

VARIABLES
    \* which program version runs, its command line and its environment
    variant, argv, euid,
    \* globals set by cli()
    no_convert, file_sink, target_fps, use_v4l2loopback, v4l2_dev_num,
    should_wait, optind_end,
    \* V4L2 globals and the process's descriptor table
    v4l2_fd, v4l2loopback_fd, v4l2_need_format_set, v4l2_dev_path, v4l2_fmt,
    fds, devices,
    \* converter globals
    decoder_ctx, packet_obj, sws_ctx, width, height, ffmpeg_output_buffer,
    ffmpeg_output_buffer_size, input_frame, output_frame,
    \* main's locals
    pc, ret, gp2_camera, image_data, image_data_size, output_data,
    output_data_size, frame_start, frame_time, target_frame_time, sleep_time,
    \* the signal flag, the clocks, the call stack of main and the exit status
    alive, now, cpu, stack, exit_code,
    \* history: what the run has done so far (hist.index: the position that
    \* gp_list_find_by_name stored for --camera; hist.capture_failed: a capture
    \* has failed since the process started)
    nframes, term, conv, wrote, logs, ub, hist

cfgVars == <<variant, argv, euid, no_convert, file_sink, target_fps,
             use_v4l2loopback, v4l2_dev_num, should_wait, optind_end>>
devVars == <<v4l2_fd, v4l2loopback_fd, v4l2_need_format_set, v4l2_dev_path,
             v4l2_fmt, fds, devices>>
convVars == <<decoder_ctx, packet_obj, sws_ctx, width, height,
              ffmpeg_output_buffer, ffmpeg_output_buffer_size, input_frame,
              output_frame>>
loopVars == <<image_data, image_data_size, output_data, output_data_size,
              frame_start, frame_time, target_frame_time, sleep_time>>
clockVars == <<now, cpu>>
histVars == <<nframes, term, conv, wrote, logs, ub, hist>>
vars == <<cfgVars, devVars, convVars, loopVars, clockVars, histVars,
          pc, ret, gp2_camera, alive, stack, exit_code>>

(* ----------------------------------------------------------- C library *)
\* the value of a decimal digit character, -1 for any other character
DigitVal(c) ==
    CASE c = "0" -> 0 [] c = "1" -> 1 [] c = "2" -> 2 [] c = "3" -> 3
      [] c = "4" -> 4 [] c = "5" -> 5 [] c = "6" -> 6 [] c = "7" -> 7
      [] c = "8" -> 8 [] c = "9" -> 9 [] OTHER -> -1

RECURSIVE AtoiDigits(_, _)
\* the leading digits of s, accumulated onto acc
AtoiDigits(s, acc) ==
    IF s = <<>> \/ DigitVal(Head(s)) < 0 THEN acc
    ELSE AtoiDigits(Tail(s), 10 * acc + DigitVal(Head(s)))

\* atoi(3): optional sign, then the leading digits; 0 when there are none
atoi(s) ==
    IF s = <<>> THEN 0
    ELSE IF Head(s) = "-" THEN 0 - AtoiDigits(Tail(s), 0)
    ELSE IF Head(s) = "+" THEN AtoiDigits(Tail(s), 0)
    ELSE AtoiDigits(s, 0)

\* open(2) returns the lowest descriptor that is not open
LowestFree(open) == CHOOSE n \in 0..(Cardinality(open) + 1) :
                        n \notin open /\ \A m \in 0..(n - 1) : m \in open

\* the status a process that returns r from main exits with
ExitStatus(r) == r % 256

\* main's last line: return ret < 0 ? 1 : 0
MainReturn(r) == IF r < 0 THEN 1 ELSE 0

(* --------------------------------------------------------- command lines *)
Absent == "absent"
\* an option that takes an argument: not given, or given with the characters of its argument
NoOpt == [given |-> FALSE, arg |-> <<>>]
Opt(s) == [given |-> TRUE, arg |-> s]
\* arguments given to --fps
FpsArgs == {<<"0">>, <<"1">>, <<"3", "0">>, <<"-", "5">>, <<"a">>, <<>>}
\* arguments given to --device
DevArgs == {<<"7">>, <<"a">>, <<"-", "5">>, <<>>}
\* --file: absent, given without a path (stdout), a path that opens, one that does not
FileArgs == {Absent, "stdout", "path", "badpath"}
\* informational options
InfoArgs == {Absent, "version", "help", "status"}

\* a command line: -x, -b, -c NAME, -f [PATH], -p VALUE, -d NUMBER, -w and an informational option
Cmd(x, b, c, f, p, d, w, info) ==
    [x |-> x, b |-> b, c |-> c, f |-> f, p |-> p, d |-> d, w |-> w, info |-> info]

\* -x, -b, -f [PATH], -p VALUE, -d NUMBER and -w alone
Plain == Cmd(FALSE, FALSE, FALSE, Absent, NoOpt, NoOpt, FALSE, Absent)

\* the command lines explored: each option is varied against the plain command
\* line, and the sinks are combined with each other, with -x and -w, and with
\* an option that cli rejects after the file sink has been opened
CmdLines ==
    {Plain, [Plain EXCEPT !.x = TRUE], [Plain EXCEPT !.b = TRUE], [Plain EXCEPT !.c = TRUE],
     [Plain EXCEPT !.w = TRUE]}
    \cup {[Plain EXCEPT !.f = f] : f \in FileArgs}
    \cup {[Plain EXCEPT !.p = Opt(a)] : a \in FpsArgs}
    \cup {[Plain EXCEPT !.d = Opt(a)] : a \in DevArgs}
    \cup {[Plain EXCEPT !.info = i] : i \in InfoArgs}
    \cup {[Plain EXCEPT !.x = TRUE, !.f = "stdout"],
          [Plain EXCEPT !.b = TRUE, !.d = Opt(<<"7">>)],
          [Plain EXCEPT !.b = TRUE, !.d = Opt(<<"7">>), !.f = "stdout"],
          [Plain EXCEPT !.f = "stdout", !.d = Opt(<<"7">>)],
          [Plain EXCEPT !.w = TRUE, !.f = "stdout"],
          [Plain EXCEPT !.w = TRUE, !.d = Opt(<<"7">>)],
          [Plain EXCEPT !.f = "path", !.d = Opt(<<>>)]}

(* ------------------------------------------------------------------ cli *)
\* the globals cli() works on, with its return value once it has returned
CliStart(nc, lb, fs, open, fps, dev, sw) ==
    [no_convert |-> nc, use_v4l2loopback |-> lb, file_sink |-> fs, fds |-> open,
     target_fps |-> fps, v4l2_dev_num |-> dev, should_wait |-> sw,
     done |-> FALSE, rv |-> 0]

CliReturn(g, r) == [g EXCEPT !.done = TRUE, !.rv = r]

\* case 'x'
OptX(g, a) ==
    IF g.done \/ ~a.x THEN g ELSE [g EXCEPT !.no_convert = TRUE]

\* case 'b' (2.0.1); 2.0.0 has no such option: getopt_long returns '?'
OptB(v, g, a) ==
    IF g.done \/ ~a.b THEN g
    ELSE IF v = "v201" THEN [g EXCEPT !.use_v4l2loopback = FALSE]
    ELSE CliReturn(g, 1)

\* case 'f': open(optarg, O_RDWR, O_NONBLOCK), or stdout without an argument
OptF(g, a) ==
    IF g.done \/ a.f = Absent THEN g
    ELSE IF a.f = "stdout" THEN [g EXCEPT !.file_sink = STDOUT_FILENO]
    ELSE IF a.f = "path"
         THEN [g EXCEPT !.file_sink = LowestFree(g.fds),
                        !.fds = g.fds \cup {LowestFree(g.fds)}]
    ELSE CliReturn([g EXCEPT !.file_sink = -1], 1)

\* case 'p' (2.0.1); 2.0.0 has no such option
OptP(v, g, a) ==
    IF g.done \/ ~a.p.given THEN g
    ELSE IF v # "v201" THEN CliReturn(g, 1)
    ELSE IF a.p.arg = <<>> THEN CliReturn(g, 1)
    ELSE IF atoi(a.p.arg) < 0
         THEN CliReturn([g EXCEPT !.target_fps = atoi(a.p.arg)], 1)
    ELSE [g EXCEPT !.target_fps = atoi(a.p.arg)]

\* every character of s is a decimal digit
AllDigits(s) == \A i \in 1..Len(s) : DigitVal(s[i]) >= 0

\* case 'd': 2.0.1 tests target_fps after the atoi, 2.0.0 tests the characters before it
OptD(v, g, a) ==
    IF g.done \/ ~a.d.given THEN g
    ELSE IF a.d.arg = <<>> THEN CliReturn(g, 1)
    ELSE IF v = "v201"
         THEN IF g.target_fps < 0
              THEN CliReturn([g EXCEPT !.v4l2_dev_num = atoi(a.d.arg)], 1)
              ELSE [g EXCEPT !.v4l2_dev_num = atoi(a.d.arg)]
    ELSE IF ~AllDigits(a.d.arg) THEN CliReturn(g, 1)
    ELSE [g EXCEPT !.v4l2_dev_num = atoi(a.d.arg)]

\* case 'w' (2.0.0); 2.0.1 accepts the option and has no case for it: default
OptW(v, g, a) ==
    IF g.done \/ ~a.w THEN g
    ELSE IF v = "v200" THEN [g EXCEPT !.should_wait = TRUE]
    ELSE CliReturn(g, 1)

\* cases 'v', 's', 'h': 2.0.1 returns -1; 2.0.0 knows 'v' only
\* (--help maps to 'H', which has no case; --status is no option)
OptInfo(v, g, a) ==
    IF g.done \/ a.info = Absent THEN g
    ELSE IF v = "v201" \/ a.info = "version" THEN CliReturn(g, -1)
    ELSE CliReturn(g, 1)

\* cli(): the options in command-line order; once getopt's optind is at the
\* end (a re-entered main) no option is read again
cli(v, a, atEnd, g) ==
    IF atEnd THEN CliReturn(g, 0)
    ELSE LET r == OptInfo(v, OptW(v, OptD(v, OptP(v, OptF(OptB(v, OptX(g, a), a), a), a), a), a), a)
         IN IF r.done THEN r ELSE CliReturn(r, 0)

(* ------------------------------------------------------------- history *)
\* one line of the diagnostic stream: its level, what it says, and two numbers it names
LogLine(level, msg, a, b) == [level |-> level, msg |-> msg, a |-> a, b |-> b]

\* one more call inside the main loop has failed
Fault(h) == [h EXCEPT !.faults = h.faults + 1]

\* the elements of a sequence
Range(s) == {s[i] : i \in 1..Len(s)}

\* hist.acquired: the resources in the order in which the run first acquired them
Acquire(h, rs) ==
    LET New(r) == r \notin Range(h.acquired)
    IN [h EXCEPT !.acquired = h.acquired \o SelectSeq(rs, New)]

\* the condition that ended setup or the loop is recorded once
Ended(t, why) == IF t = "none" THEN why ELSE t

\* conv: the converter call of the current iteration (none yet), and how the
\* call of the previous iteration ended
NoCall == [calls |-> 0, result |-> 0, stage |-> "none", prev |-> "none",
           inited |-> FALSE, reinit |-> FALSE, valid |-> FALSE, w |-> 0, h |-> 0,
           ub |-> {}]

\* hist.write: the write() of the current iteration (none yet)
NoWrite == [sink |-> "none", n |-> 0, size |-> 0, frame |-> 0]

(* ----------------------------------------------------------------- Init *)
\* the Camera object: not created, created, or initialised, with the detected
\* camera (its position in the autodetect list, -1: none) whose abilities and
\* whose port have been set on it
Camera(state, abilities, port) == [state |-> state, abilities |-> abilities, port |-> port]
NoCamera == Camera("null", -1, -1)

Variants == {"v201", "v200"}
\* effective user ids: root, and an ordinary user
Euids == {0, 1000}
\* CLOCK_MONOTONIC readings (ns past a whole second) at which an iteration may
\* start: late in a second, so that a long iteration ends in the next one
ClockPhases == {990000000}

clock_gettime(t) == [tv_sec |-> t \div NSEC_PER_SEC, tv_nsec |-> t % NSEC_PER_SEC]

Init ==
    /\ variant \in Variants
    /\ argv \in CmdLines
    /\ euid \in (IF variant = "v201" THEN Euids ELSE {0})
    /\ no_convert = FALSE
    /\ file_sink = -1
    /\ target_fps = IF variant = "v201" THEN DEFAULT_TARGET_FPS ELSE DEFAULT_DESIRED_FPS
    /\ use_v4l2loopback = (variant = "v201")
    /\ v4l2_dev_num = -1
    /\ should_wait = FALSE
    /\ optind_end = FALSE
    /\ v4l2_fd = -1
    /\ v4l2loopback_fd = -1
    /\ v4l2_need_format_set = FALSE
    /\ v4l2_dev_path = FALSE
    /\ v4l2_fmt = <<0, 0>>
    /\ fds = {0, 1, 2}
    /\ devices = {}
    /\ decoder_ctx = "null"
    /\ packet_obj = "null"
    /\ sws_ctx = <<0, 0>>
    /\ width = DEFAULT_WIDTH
    /\ height = DEFAULT_HEIGHT
    /\ ffmpeg_output_buffer = "null"
    /\ ffmpeg_output_buffer_size = 0
    /\ input_frame = [alloc |-> FALSE, width |-> 0, height |-> 0]
    /\ output_frame = [alloc |-> FALSE, data |-> "null", width |-> 0, height |-> 0]
    /\ pc = "cli"
    /\ ret = 0
    /\ gp2_camera = NoCamera
    /\ image_data = "null"
    /\ image_data_size = 0
    /\ output_data = "null"
    /\ output_data_size = 0
    /\ frame_start = IF variant = "v201" THEN clock_gettime(0) ELSE 0
    /\ frame_time = 0
    /\ target_frame_time = 0
    /\ sleep_time = 0
    /\ alive = TRUE
    /\ now = 0
    /\ cpu = 0
    /\ stack = <<>>
    /\ exit_code = -1
    /\ nframes = 0
    /\ term = "none"
    /\ conv = NoCall
    /\ wrote = 0
    /\ logs = {}
    /\ ub = {}
    /\ hist = [ret_at_cleanup |-> 0, remove |-> "none", iterations |-> 0,
               start_wall |-> 0, measured |-> 0, elapsed |-> 0, slept |-> -1,
               write |-> NoWrite, fatal_at |-> 0, faults |-> 0, restarts |-> 0,
               index |-> -1, capture_failed |-> FALSE,
               acquired |-> <<>>, released |-> <<>>]

(* ------------------------------------------------------- main: start-up *)
\* return from main with value r: the process exits, or a re-entered main
\* returns into the cleanup of the main that called it (its value is discarded)
Return(r) ==
    IF stack = <<>>
    THEN /\ pc' = "done"
         /\ exit_code' = ExitStatus(r)
         /\ UNCHANGED <<stack, ret>>
    ELSE /\ pc' = "cleanup_tail"
         /\ ret' = Head(stack).ret
         /\ stack' = Tail(stack)
         /\ UNCHANGED exit_code

\* int ret = cli(argc, argv); if (ret != 0) return ret;
MainCli ==
    /\ pc = "cli"
    /\ LET g == cli(variant, argv, optind_end,
                    CliStart(no_convert, use_v4l2loopback, file_sink, fds,
                             target_fps, v4l2_dev_num, should_wait))
       IN /\ no_convert' = g.no_convert
          /\ use_v4l2loopback' = g.use_v4l2loopback
          /\ file_sink' = g.file_sink
          /\ fds' = g.fds
          /\ target_fps' = g.target_fps
          /\ v4l2_dev_num' = g.v4l2_dev_num
          /\ should_wait' = g.should_wait
          /\ optind_end' = TRUE
          /\ hist' = IF g.fds # fds THEN Acquire(hist, <<"file_sink">>) ELSE hist
          /\ IF g.rv # 0
             THEN /\ term' = Ended(term, "cli")
                  /\ Return(g.rv)
             ELSE /\ pc' = IF variant = "v201" THEN "reexec" ELSE "camera_new"
                  /\ ret' = g.rv
                  /\ UNCHANGED <<term, stack, exit_code>>
    /\ UNCHANGED <<variant, argv, euid, v4l2_fd, v4l2loopback_fd,
                   v4l2_need_format_set, v4l2_dev_path, v4l2_fmt, devices,
                   convVars, loopVars, clockVars, gp2_camera, alive,
                   nframes, conv, wrote, logs, ub>>

\* goto cleanup with ret = r, for the reason why
GotoCleanup(r, why, line) ==
    /\ pc' = "cleanup"
    /\ ret' = r
    /\ term' = Ended(term, why)
    /\ logs' = logs \cup {line}

\* 2.0.1: without root and with v4l2loopback, main re-executes itself under sudo
PrivilegeReexec ==
    /\ pc = "reexec"
    /\ IF use_v4l2loopback /\ euid # 0
       THEN \/ \* readlink fails
               /\ GotoCleanup(-1, "setup", LogLine("FATL", "readlink", 0, 0))
               /\ UNCHANGED exit_code
            \/ \* readlink fills the buffer: ret = sizeof(executable_path)
               /\ GotoCleanup(EXEC_PATH_MAX, "setup", LogLine("FATL", "path too long", 0, 0))
               /\ UNCHANGED exit_code
            \/ \* fork fails: ret is still the length readlink returned
               \E len \in {20} :
                 /\ GotoCleanup(len, "setup", LogLine("FATL", "fork", 0, 0))
                 /\ UNCHANGED exit_code
            \/ \* the parent exits with the child's status, or 1 when a signal killed it
               \E status \in {0, 1} :
                 /\ pc' = "done"
                 /\ exit_code' = status
                 /\ term' = Ended(term, "reexec")
                 /\ UNCHANGED <<ret, logs>>
       ELSE /\ pc' = "camera_new"
            /\ UNCHANGED <<ret, term, logs, exit_code>>
    /\ UNCHANGED <<cfgVars, devVars, convVars, loopVars, clockVars, gp2_camera,
                   alive, stack, nframes, conv, wrote, ub, hist>>

\* results of a libgphoto2 call: GP_OK or a negative error code
GpResults == {GP_OK, -1}

\* ret = gp_camera_new(&gp2_camera)
CameraNew ==
    /\ pc = "camera_new"
    /\ \E r \in GpResults :
         IF r < GP_OK
         THEN /\ GotoCleanup(r, "setup", LogLine("FATL", "camera_new", 0, 0))
              /\ hist' = Acquire(hist, <<"context">>)
              /\ UNCHANGED gp2_camera
         ELSE /\ pc' = IF variant = "v201" THEN "autodetect" ELSE "wait_init"
              /\ ret' = r
              /\ gp2_camera' = Camera("new", -1, -1)
              /\ hist' = Acquire(hist, <<"context", "camera">>)
              /\ UNCHANGED <<term, logs>>
    /\ UNCHANGED <<cfgVars, devVars, convVars, loopVars, clockVars, alive, stack,
                   exit_code, nframes, conv, wrote, ub>>

\* 2.0.1: gp_camera_autodetect returns the number of cameras found or an error;
\* an empty list leaves ret as it is
Autodetect ==
    /\ pc = "autodetect"
    /\ \E r \in {-1, 0, 1, 2} :
         IF r < GP_OK
         THEN GotoCleanup(r, "setup", LogLine("FATL", "autodetect", 0, 0))
         ELSE IF r < 1
         THEN GotoCleanup(r, "setup", LogLine("FATL", "no cameras", 0, 0))
         ELSE /\ pc' = "select_camera"
              /\ ret' = r
              /\ UNCHANGED <<term, logs>>
    /\ hist' = Acquire(hist, <<"camlist">>)
    /\ UNCHANGED <<cfgVars, devVars, convVars, loopVars, clockVars, gp2_camera,
                   alive, stack, exit_code, nframes, conv, wrote, ub>>

\* gp_camera_init on a Camera whose abilities and port have not been set
\* detects the cameras itself and takes the first one
gp_camera_init(c) ==
    [c EXCEPT !.state = "init",
              !.abilities = IF c.abilities = -1 THEN 0 ELSE c.abilities,
              !.port = IF c.port = -1 THEN 0 ELSE c.port]

\* gp_list_find_by_name(list, &index, name) for a name held by entry i of the list
\* (-1: by none): the position goes to index, the value returned is GP_OK or an error
gp_list_find_by_name(i) == [rv |-> IF i >= 0 THEN GP_OK ELSE -1, index |-> i]

\* int gp2_camera_index = ret, with ret the value gp_list_find_by_name returned
gp2_camera_index(find) == find.rv

\* 2.0.1: with --camera, the named camera is searched in the list of ret detected
\* cameras; when found, the abilities of the model and the port of list entry
\* gp2_camera_index are set on the Camera (each lookup may fail); when not, a
\* warning is logged and the Camera is left for gp_camera_init to choose
SelectCamera ==
    /\ pc = "select_camera"
    /\ IF argv.c
       THEN \E i \in -1..(ret - 1), r \in GpResults :
              LET find == gp_list_find_by_name(i)
              IN /\ hist' = [hist EXCEPT !.index = find.index]
                 /\ IF find.rv >= GP_OK /\ r < GP_OK
                    THEN /\ GotoCleanup(r, "setup", LogLine("FATL", "lookup", 0, 0))
                         /\ UNCHANGED gp2_camera
                    ELSE /\ pc' = "camera_init"
                         /\ ret' = IF find.rv >= GP_OK THEN r ELSE find.rv
                         /\ gp2_camera' =
                              IF find.rv >= GP_OK
                              THEN Camera("new", find.index, gp2_camera_index(find))
                              ELSE gp2_camera
                         /\ UNCHANGED <<term, logs>>
       ELSE /\ pc' = "camera_init"
            /\ UNCHANGED <<ret, term, logs, gp2_camera, hist>>
    /\ UNCHANGED <<cfgVars, devVars, convVars, loopVars, clockVars,
                   alive, stack, exit_code, nframes, conv, wrote, ub>>

\* 2.0.1: ret = gp_camera_init(gp2_camera, gp2_context)
CameraInit ==
    /\ pc = "camera_init"
    /\ \E r \in GpResults :
         IF r < GP_OK
         THEN /\ GotoCleanup(r, "setup", LogLine("FATL", "camera_init", 0, 0))
              /\ UNCHANGED gp2_camera
         ELSE /\ pc' = "file_new"
              /\ ret' = r
              /\ gp2_camera' = gp_camera_init(gp2_camera)
              /\ UNCHANGED <<term, logs>>
    /\ UNCHANGED <<cfgVars, devVars, convVars, loopVars, clockVars, alive, stack,
                   exit_code, nframes, conv, wrote, ub, hist>>

\* 2.0.0: with --wait, gp_camera_init is retried every 3 s while alive; without
\* --wait the loop body never runs
WaitInit ==
    /\ pc = "wait_init"
    /\ IF should_wait /\ alive
       THEN \E r \in GpResults :
              /\ ret' = r
              /\ IF r < GP_OK
                 THEN UNCHANGED <<pc, gp2_camera>>
                 ELSE pc' = "file_new" /\ gp2_camera' = gp_camera_init(gp2_camera)
       ELSE /\ pc' = "file_new"
            /\ UNCHANGED <<ret, gp2_camera>>
    /\ UNCHANGED <<cfgVars, devVars, convVars, loopVars, clockVars, alive, stack,
                   exit_code, histVars>>

\* ret = gp_file_new(&gp2_file)
FileNew ==
    /\ pc = "file_new"
    /\ \E r \in GpResults :
         IF r < GP_OK
         THEN /\ GotoCleanup(r, "setup", LogLine("FATL", "file_new", 0, 0))
              /\ UNCHANGED hist
         ELSE /\ pc' = IF variant = "v201" THEN "init_v4l2" ELSE "alloc_frames"
              /\ ret' = r
              /\ hist' = Acquire(hist, <<"gp2_file">>)
              /\ UNCHANGED <<term, logs>>
    /\ UNCHANGED <<cfgVars, devVars, convVars, loopVars, clockVars, gp2_camera,
                   alive, stack, exit_code, nframes, conv, wrote, ub>>

(* ------------------------------------------------------ V4L2 loopback *)
\* what the system answers to init_v4l2_device's calls: the two open()s of
\* /dev/v4l2loopback, the module load, the two LOOP_CTL_ADDs, the open() of
\* /dev/videoN, VIDIOC_QUERYCAP and the output capability
V4l2Env(ctl1, mod, ctl2, add1, add2, vopen, qcap, outcap) ==
    [ctl1 |-> ctl1, mod |-> mod, ctl2 |-> ctl2, add1 |-> add1, add2 |-> add2,
     vopen |-> vopen, qcap |-> qcap, outcap |-> outcap]

V4l2Envs ==
    {V4l2Env(c, "ok", TRUE, a, TRUE, TRUE, TRUE, TRUE) : c \in BOOLEAN, a \in BOOLEAN}
    \cup {V4l2Env(FALSE, m, TRUE, TRUE, TRUE, TRUE, TRUE, TRUE) : m \in {"notfound", "insertfail"}}
    \cup {V4l2Env(c, "ok", FALSE, TRUE, TRUE, TRUE, TRUE, TRUE) : c \in BOOLEAN}
    \cup {V4l2Env(TRUE, "ok", TRUE, FALSE, FALSE, TRUE, TRUE, TRUE),
          V4l2Env(TRUE, "ok", TRUE, TRUE, TRUE, FALSE, TRUE, TRUE),
          V4l2Env(TRUE, "ok", TRUE, TRUE, TRUE, TRUE, FALSE, TRUE),
          V4l2Env(TRUE, "ok", TRUE, TRUE, TRUE, TRUE, TRUE, FALSE)}

\* the device number LOOP_CTL_ADD returns: the requested one, or one the driver picks
LoopCtlAdd(nr) == IF nr >= 0 THEN nr ELSE 2

\* the globals init_v4l2_device works on, with its return value
V4l2State(lfd, vfd, num, path, open, devs, rv) ==
    [v4l2loopback_fd |-> lfd, v4l2_fd |-> vfd, v4l2_dev_num |-> num,
     v4l2_dev_path |-> path, fds |-> open, devices |-> devs, rv |-> rv]

\* 2.0.1 init_v4l2_device, second half: open /dev/videoN and check it
OpenVideoDevice(g, e) ==
    LET p == [g EXCEPT !.v4l2_dev_path = TRUE]
        fd == LowestFree(p.fds)
    IN IF ~(e.vopen /\ p.v4l2_dev_num >= 0)
       THEN [p EXCEPT !.v4l2_fd = -1, !.rv = -1]
       ELSE IF ~e.qcap \/ ~e.outcap
       THEN [p EXCEPT !.v4l2_fd = -1, !.rv = -1]
       ELSE [p EXCEPT !.v4l2_fd = fd, !.fds = p.fds \cup {fd}, !.rv = 0]

\* 2.0.1 init_v4l2_device, first half: the control device and LOOP_CTL_ADD
init_v4l2_device_201(lb, g, e) ==
    IF ~lb THEN OpenVideoDevice(g, e)
    ELSE
      LET fdA == LowestFree(g.fds)
          g1 == IF e.ctl1
                THEN [g EXCEPT !.v4l2loopback_fd = fdA, !.fds = g.fds \cup {fdA}]
                ELSE [g EXCEPT !.v4l2loopback_fd = -1]
          fdB == LowestFree(g1.fds)
          g2 == IF e.ctl2
                THEN [g1 EXCEPT !.v4l2loopback_fd = fdB, !.fds = g1.fds \cup {fdB}]
                ELSE [g1 EXCEPT !.v4l2loopback_fd = -1]
          nr == IF e.add1 THEN LoopCtlAdd(g.v4l2_dev_num) ELSE LoopCtlAdd(-1)
      IN IF ~e.ctl1 /\ e.mod # "ok" THEN [g1 EXCEPT !.rv = -1]
         ELSE IF ~e.ctl2 THEN [g2 EXCEPT !.rv = -1]
         ELSE IF ~e.add1 /\ ~e.add2 THEN [g2 EXCEPT !.rv = -1]
         ELSE OpenVideoDevice([g2 EXCEPT !.v4l2_dev_num = nr,
                                         !.devices = g2.devices \cup {nr}], e)

\* 2.0.0 init_v4l2_device: open /dev/videoN and check it
init_v4l2_device_200(g, e) ==
    LET fd == LowestFree(g.fds)
    IN IF ~e.vopen \/ ~e.qcap \/ ~e.outcap
       THEN [g EXCEPT !.v4l2_fd = -1, !.rv = -1]
       ELSE [g EXCEPT !.v4l2_fd = fd, !.fds = g.fds \cup {fd}, !.rv = 0]

\* bytes per pixel of the format a version converts to: YUYV422, RGB24
BytesPerPixel(v) == IF v = "v201" THEN YUYV_BYTES_PER_PIXEL ELSE RGB24_BYTES_PER_PIXEL

\* what init_v4l2_device has acquired when it returns, in the order of its calls:
\* the control device, the loopback device LOOP_CTL_ADD created, the video device
DeviceAcquired(g, devs) ==
    LET Got(r) == CASE r = "v4l2loopback_fd" -> g.v4l2loopback_fd > 0
                    [] r = "device" -> g.devices # devs
                    [] OTHER -> g.v4l2_fd > 0
    IN SelectSeq(<<"v4l2loopback_fd", "device", "v4l2_fd">>, Got)

\* 2.0.1: ret = init_v4l2_device(), always; the format is set by the first write.
\* 2.0.0: only with --device: init_v4l2_device(), then setup_v4l2_format()
\* a setup that never asks for the format to be set
FormatNeverNeeded(path) == FALSE

\* if (*v4l2_dev_path) v4l2_need_format_set = true
NeedFormatSet(path) == path

InitV4l2 ==
    /\ pc = "init_v4l2"
    /\ \E e \in V4l2Envs, fmt_ok \in BOOLEAN :
         LET g0 == V4l2State(v4l2loopback_fd, v4l2_fd, v4l2_dev_num, v4l2_dev_path,
                             fds, devices, 0)
             g == IF variant = "v201"
                  THEN init_v4l2_device_201(use_v4l2loopback, g0, e)
                  ELSE IF v4l2_dev_num >= 0 THEN init_v4l2_device_200(g0, e)
                  ELSE [g0 EXCEPT !.rv = ret]
             fmt_called == variant = "v200" /\ v4l2_dev_num >= 0 /\ g.rv >= 0
             rv == IF fmt_called /\ ~fmt_ok THEN -1 ELSE g.rv
         IN /\ v4l2loopback_fd' = g.v4l2loopback_fd
            /\ v4l2_fd' = g.v4l2_fd
            /\ v4l2_dev_num' = g.v4l2_dev_num
            /\ v4l2_dev_path' = g.v4l2_dev_path
            /\ fds' = g.fds
            /\ devices' = g.devices
            /\ hist' = Acquire(hist, DeviceAcquired(g, devices))
            /\ v4l2_fmt' = IF fmt_called /\ fmt_ok THEN <<width, height>> ELSE v4l2_fmt
            /\ IF rv < 0
               THEN /\ GotoCleanup(rv, "setup", LogLine("FATL", "init_v4l2", 0, 0))
                    /\ UNCHANGED v4l2_need_format_set
               ELSE /\ pc' = IF variant = "v201" THEN "alloc_frames" ELSE "pace_setup"
                    /\ ret' = rv
                    /\ v4l2_need_format_set' =
                         IF variant = "v201" THEN NeedFormatSet(g.v4l2_dev_path)
                         ELSE v4l2_need_format_set
                    /\ UNCHANGED <<term, logs>>
    /\ UNCHANGED <<variant, argv, euid, no_convert, file_sink, target_fps,
                   use_v4l2loopback, should_wait, optind_end, convVars, loopVars,
                   clockVars, gp2_camera, alive, stack, exit_code, nframes, conv,
                   wrote, ub>>

\* av_frame_alloc() of input_frame and output_frame unless --no-convert.
\* 2.0.1 jumps to cleanup with ret as it is; 2.0.0's init_ffmpeg_conversion returns -1
AllocFrames ==
    /\ pc = "alloc_frames"
    /\ \E in_ok \in BOOLEAN, out_ok \in BOOLEAN :
         /\ input_frame' = IF no_convert THEN input_frame
                           ELSE [input_frame EXCEPT !.alloc = in_ok]
         /\ output_frame' = IF no_convert \/ ~in_ok THEN output_frame
                            ELSE [output_frame EXCEPT !.alloc = out_ok]
         /\ hist' = IF no_convert \/ ~in_ok THEN hist
                    ELSE IF ~out_ok THEN Acquire(hist, <<"input_frame">>)
                    ELSE Acquire(hist, <<"input_frame", "output_frame">>)
         /\ IF ~no_convert /\ (~in_ok \/ ~out_ok)
            THEN GotoCleanup(IF variant = "v201" THEN ret ELSE -1, "setup",
                             LogLine("FATL", "alloc_frames", 0, 0))
            ELSE /\ pc' = IF variant = "v201" THEN "pace_setup" ELSE "init_v4l2"
                 /\ UNCHANGED <<ret, term, logs>>
    /\ UNCHANGED <<cfgVars, devVars, decoder_ctx, packet_obj, sws_ctx, width, height,
                   ffmpeg_output_buffer, ffmpeg_output_buffer_size, loopVars,
                   clockVars, gp2_camera, alive, stack, exit_code, nframes, conv,
                   wrote, ub>>

(* ----------------------------------------------------------------- pacer *)
\* nanoseconds in one tick of clock()
NsPerClock == NSEC_PER_SEC \div CLOCKS_PER_SEC

\* what the work of one iteration costs: elapsed time (ns) and processor time
\* (clock() ticks); the process is blocked on the camera for most of it
WorkTimes == {[wall |-> 4000000, cpu |-> 1000],
              [wall |-> 40000000, cpu |-> 2000]}
\* how much longer than asked a sleep may last (ns)
Oversleep == {0, 1000000}

\* 2.0.1: target_frame_time = 1000000000L / target_fps
\* 2.0.0: desired_frame_time = CLOCKS_PER_SEC / desired_fps
TargetFrameTime(v, fps) ==
    IF v = "v201" THEN NSEC_PER_SEC \div fps ELSE CLOCKS_PER_SEC \div fps

\* the target interval in nanoseconds of elapsed time
TargetNs(v, t) == IF v = "v201" THEN t ELSE t * NsPerClock

\* the locals of the main loop are declared; the target interval is computed.
\* A division by zero is undefined: the build traps (SIGFPE) or yields some value
PaceSetup ==
    /\ pc = "pace_setup"
    /\ image_data' = "null"
    /\ output_data' = "null"
    /\ output_data_size' = 0
    /\ frame_time' = 0
    /\ sleep_time' = 0
    /\ IF target_fps = 0
       THEN /\ ub' = ub \cup {"div_by_zero"}
            /\ \/ /\ pc' = "done"
                  /\ exit_code' = 136
                  /\ term' = Ended(term, "sigfpe")
                  /\ UNCHANGED target_frame_time
               \/ /\ pc' = "loop_top"
                  /\ target_frame_time' = 0
                  /\ UNCHANGED <<exit_code, term>>
       ELSE /\ target_frame_time' = TargetFrameTime(variant, target_fps)
            /\ pc' = "loop_top"
            /\ UNCHANGED <<ub, exit_code, term>>
    /\ UNCHANGED <<cfgVars, devVars, convVars, image_data_size, frame_start,
                   clockVars, ret, gp2_camera, alive, stack, nframes, conv, wrote,
                   logs, hist>>

\* how a converter call ended: in the one-time initialisation, in the decoder,
\* in the rescale set-up, in sws_scale, or with a converted frame
StageKind(stage) ==
    CASE stage \in {"send", "receive"} -> "decode"
      [] stage \in {"sws_getContext", "malloc", "fill_arrays"} -> "rescale"
      [] stage = "sws_scale" -> "scale"
      [] stage = "none" -> "ok"
      [] OTHER -> "init"

\* timespec difference in nanoseconds, as main computes frame_time
TimespecDiff(e, s) ==
    (e.tv_sec - s.tv_sec) * NSEC_PER_SEC + (e.tv_nsec - s.tv_nsec)

\* while (alive) { clock_gettime(CLOCK_MONOTONIC, &frame_start) / frame_start = clock()
\* The clocks' origins are arbitrary: they are moved at each iteration start
\* (hist.elapsed keeps the time since the previous start); conv, logs and the
\* rest of hist start afresh with the iteration
LoopTop ==
    /\ pc = "loop_top"
    /\ IF alive
       THEN /\ nframes < MaxFrames
            /\ \E t \in ClockPhases :
                 /\ now' = t
                 /\ cpu' = 0
                 /\ frame_start' = IF variant = "v201" THEN clock_gettime(t) ELSE 0
                 /\ hist' = [hist EXCEPT !.iterations = 1, !.start_wall = t,
                                         !.measured = 0, !.elapsed = 0, !.slept = -1,
                                         !.write = NoWrite]
            /\ conv' = [NoCall EXCEPT !.prev = IF conv.calls = 0 THEN conv.prev
                                               ELSE StageKind(conv.stage)]
            /\ logs' = {}
            /\ pc' = "capture"
            /\ UNCHANGED term
       ELSE /\ pc' = "cleanup"
            /\ term' = Ended(term, "interrupt")
            /\ UNCHANGED <<now, cpu, frame_start, hist, conv, logs>>
    /\ UNCHANGED <<cfgVars, devVars, convVars, image_data, image_data_size,
                   output_data, output_data_size, frame_time, target_frame_time,
                   sleep_time, ret, gp2_camera, alive, stack, exit_code, nframes,
                   wrote, ub>>

\* a loop that goes on to the pacer after an error instead of leaving
ContinueLoop(r, why, line) ==
    /\ pc' = "loop_end"
    /\ ret' = r
    /\ term' = term
    /\ logs' = logs \cup {line}

\* leaving the loop with break
Break(r, why, line) ==
    /\ pc' = "cleanup"
    /\ ret' = r
    /\ term' = Ended(term, why)
    /\ logs' = logs \cup {line}

\* ret = gp_camera_capture_preview(gp2_camera, gp2_file, gp2_context)
Capture ==
    /\ pc = "capture"
    /\ nframes' = nframes + 1
    /\ \E r \in GpResults :
         /\ r # GP_OK => hist.faults < MaxFaults
         /\ IF r # GP_OK
            THEN /\ Break(r, "capture", LogLine("FATL", "capture preview", 0, 0))
                 /\ hist' = [Fault(hist) EXCEPT !.fatal_at = nframes + 1,
                                                !.capture_failed = TRUE]
                 /\ UNCHANGED gp2_camera
            ELSE /\ pc' = "get_data"
                 /\ ret' = r
                 /\ gp2_camera' = gp_camera_init(gp2_camera)
                 /\ UNCHANGED <<term, logs, hist>>
    /\ UNCHANGED <<cfgVars, devVars, convVars, loopVars, clockVars, alive, stack,
                   exit_code, conv, wrote, ub>>

\* sizes in bytes of the coded frames the camera delivers
RawSizes == {5}

\* ret = gp_file_get_data_and_size(gp2_file, &image_data, &image_data_size)
GetData ==
    /\ pc = "get_data"
    /\ \E r \in GpResults, size \in RawSizes :
         IF r # GP_OK
         THEN /\ hist.faults < MaxFaults
              /\ Break(r, "capture", LogLine("FATL", "get data", 0, 0))
              /\ hist' = [Fault(hist) EXCEPT !.fatal_at = nframes,
                                             !.capture_failed = TRUE]
              /\ UNCHANGED <<image_data, image_data_size>>
         ELSE /\ pc' = "convert"
              /\ ret' = r
              /\ image_data' = "image"
              /\ image_data_size' = size
              /\ UNCHANGED <<term, logs, hist>>
    /\ UNCHANGED <<cfgVars, devVars, convVars, output_data, output_data_size,
                   frame_start, frame_time, target_frame_time, sleep_time,
                   clockVars, gp2_camera, alive, stack, exit_code, nframes, conv,
                   wrote, ub>>

(* ------------------------------------------------------------ converter *)
\* the sizes of decoded pictures (widths are even: YUYV422 pairs pixels)
Pictures == {[w |-> 2, h |-> 1], [w |-> 4, h |-> 2]}

\* the steps of the one-time initialisation that can fail
InitStages == {"avio", "format_ctx", "open_input", "stream_info", "no_video_stream",
               "no_decoder", "alloc_context", "parameters", "open2"}

\* one frame as the libraries see it: which step of the one-time initialisation
\* fails on it ("ok": none), whether the decoder takes the packet and returns a
\* picture, the picture's size, and whether sws_getContext, av_malloc,
\* av_image_fill_arrays and sws_scale succeed
ConvEnv(init, send, recv, w, h, sws, malloc, fill, scale) ==
    [init |-> init, send |-> send, recv |-> recv, w |-> w, h |-> h, sws |-> sws,
     malloc |-> malloc, fill |-> fill, scale |-> scale]

\* a frame on which every library call succeeds
ValidFrame(w, h) == ConvEnv("ok", TRUE, TRUE, w, h, TRUE, TRUE, TRUE, TRUE)

\* the frames explored: valid ones, and ones on which exactly one call fails
\* (the picture's size plays no part before the decoder has returned it)
ConvEnvs ==
    {ValidFrame(p.w, p.h) : p \in Pictures}
    \cup {[ValidFrame(2, 1) EXCEPT !.init = i] : i \in InitStages}
    \cup {[ValidFrame(2, 1) EXCEPT !.send = FALSE], [ValidFrame(2, 1) EXCEPT !.recv = FALSE]}
    \cup UNION {{[ValidFrame(p.w, p.h) EXCEPT !.sws = FALSE],
                 [ValidFrame(p.w, p.h) EXCEPT !.malloc = FALSE],
                 [ValidFrame(p.w, p.h) EXCEPT !.fill = FALSE],
                 [ValidFrame(p.w, p.h) EXCEPT !.scale = FALSE]} : p \in Pictures}

\* av_image_get_buffer_size(fmt, w, h, 1) for the packed formats used
av_image_get_buffer_size(v, w, h) == w * h * BytesPerPixel(v)

\* the converter's globals, with what the call returns
ConvState(dc, pk, sc, w, h, buf, size, inf, outf) ==
    [decoder_ctx |-> dc, packet_obj |-> pk, sws_ctx |-> sc, width |-> w,
     height |-> h, ffmpeg_output_buffer |-> buf, ffmpeg_output_buffer_size |-> size,
     input_frame |-> inf, output_frame |-> outf,
     rv |-> 0, stage |-> "none", inited |-> FALSE, reinit |-> FALSE, ub |-> {}]

ConvFail(c, stage) == [c EXCEPT !.rv = -1, !.stage = stage]

\* a converter that sets the decoder up anew on every call
ConvertInitEveryCall(c, x) ==
    IF x.init # "ok" THEN ConvFail(c, x.init)
    ELSE [c EXCEPT !.decoder_ctx = "open", !.width = x.w, !.height = x.h,
                   !.inited = TRUE]

\* if (!decoder_ctx) { ... }: the one-time initialisation; a failing step leaves
\* decoder_ctx NULL, success records the stream's width and height
ConvertInit(c, x) ==
    IF c.decoder_ctx # "null" THEN c
    ELSE IF x.init # "ok" THEN ConvFail(c, x.init)
    ELSE [c EXCEPT !.decoder_ctx = "open", !.width = x.w, !.height = x.h,
                   !.inited = TRUE]

\* a decoder failure after which the decoder context is given up
DecodeFailedDropsDecoder(c, stage) == [ConvFail(c, stage) EXCEPT !.decoder_ctx = "null"]

\* what a failed avcodec_send_packet / avcodec_receive_frame leaves behind
DecodeFailed(c, stage) == ConvFail(c, stage)

\* the packet, avcodec_send_packet and avcodec_receive_frame.
\* 2.0.1 allocates the packet once, 2.0.0 on every call
ConvertDecode(v, c, x) ==
    LET p == [c EXCEPT !.packet_obj = "alloc"]
        usable == p.decoder_ctx = "open" /\ p.input_frame.alloc
        q == IF usable THEN p ELSE [p EXCEPT !.ub = p.ub \cup {"decoder"}]
    IN IF ~usable \/ ~x.send THEN DecodeFailed(q, "send")
       ELSE IF ~x.recv
       THEN DecodeFailed([q EXCEPT !.input_frame.width = 0, !.input_frame.height = 0],
                         "receive")
       ELSE [q EXCEPT !.input_frame.width = x.w, !.input_frame.height = x.h]

\* the output buffer is reallocated when there is none or the new size is larger
ReallocNeeded(buf, size, new_size) == buf = "null" \/ new_size > size

\* a converter that sets the rescale step up anew for every frame
SetupOnEveryFrame(sc, cw, ch, w, h) == TRUE

\* the test that guards the rescale set-up:
\* !sws_ctx || width != input_frame->width || height != input_frame->height
RescaleSetupNeeded(sc, cw, ch, w, h) == sc = <<0, 0>> \/ cw # w \/ ch # h

\* if (!sws_ctx || width != input_frame->width || height != input_frame->height) { ... }
ConvertRescaleSetup(v, c, x) ==
    LET w == c.input_frame.width
        h == c.input_frame.height
        new_size == av_image_get_buffer_size(v, w, h)
        c1 == [c EXCEPT !.width = w, !.height = h, !.reinit = TRUE,
                        !.sws_ctx = IF x.sws THEN <<w, h>> ELSE <<0, 0>>]
        realloc == ReallocNeeded(c1.ffmpeg_output_buffer,
                                 c1.ffmpeg_output_buffer_size, new_size)
        freed == realloc /\ c1.ffmpeg_output_buffer # "null"
        c2 == IF ~realloc THEN c1
              ELSE [c1 EXCEPT
                      !.ffmpeg_output_buffer = IF x.malloc THEN "live" ELSE "null",
                      !.ffmpeg_output_buffer_size =
                          IF x.malloc THEN new_size ELSE c1.ffmpeg_output_buffer_size,
                      !.output_frame.data =
                          IF freed /\ c1.output_frame.data = "buf" THEN "stale"
                          ELSE c1.output_frame.data]
    IN IF ~RescaleSetupNeeded(c.sws_ctx, c.width, c.height, w, h) THEN c
       ELSE IF ~x.sws THEN ConvFail(c1, "sws_getContext")
       ELSE IF realloc /\ ~x.malloc THEN ConvFail(c2, "malloc")
       ELSE IF ~x.fill THEN ConvFail(c2, "fill_arrays")
       ELSE [c2 EXCEPT !.output_frame.data = "buf", !.output_frame.width = w,
                       !.output_frame.height = h]

\* sws_scale into output_frame->data: destination pointers that were never set
\* (NULL) are refused with an error; writing through a pointer that is freed, or
\* laid out for another size, is undefined
ConvertScale(c, x) ==
    LET sound == /\ c.output_frame.data = "buf"
                 /\ <<c.output_frame.width, c.output_frame.height>> = c.sws_ctx
        q == IF sound THEN c ELSE [c EXCEPT !.ub = c.ub \cup {"sws_scale"}]
    IN IF c.output_frame.data = "null" THEN ConvFail(c, "sws_scale")
       ELSE IF ~x.scale THEN ConvFail(q, "sws_scale") ELSE q

\* the size convert reports on success: *output_data_size = ffmpeg_output_buffer_size
ReportedSize(c) == c.ffmpeg_output_buffer_size

\* convert_ffmpeg (2.0.1) / convert_to_rgb24 (2.0.0)
convert_ffmpeg(v, c, x) ==
    LET a == ConvertInit(c, x)
        b == IF a.rv < 0 THEN a ELSE ConvertDecode(v, a, x)
        d == IF b.rv < 0 THEN b ELSE ConvertRescaleSetup(v, b, x)
        e == IF d.rv < 0 THEN d ELSE ConvertScale(d, x)
    IN e

\* a main loop that takes what the converter left even when the call failed
KeepConverterOutput(rv, raw, converted) == converted

\* if (ret < 0) { output_data = image_data; output_data_size = image_data_size; }
\* for the pointer and for the size: the raw frame's after a failed call
OutputAfterConvert(rv, raw, converted) == IF rv < 0 THEN raw ELSE converted

\* a main loop that converts every frame, whatever --no-convert says
ConverterAlwaysEnabled(nc) == TRUE

\* the test of the main loop that guards the converter call: if (!no_convert)
ConverterEnabled(nc) == ~nc

\* what the converter holds when a call returns, in the order in which a call
\* acquires it: decoder context, packet, rescale context, output buffer
ConverterAcquired(c) ==
    LET Got(r) == CASE r = "decoder_ctx" -> c.decoder_ctx # "null"
                    [] r = "packet_obj" -> c.packet_obj # "null"
                    [] r = "sws_ctx" -> c.sws_ctx # <<0, 0>>
                    [] OTHER -> c.ffmpeg_output_buffer = "live"
    IN SelectSeq(<<"decoder_ctx", "packet_obj", "sws_ctx", "buffer">>, Got)

\* if (!no_convert) { ret = convert(...); if (ret < 0) fall back to the raw frame }
\* else the raw frame is the output
Convert ==
    /\ pc = "convert"
    /\ pc' = "sink"
    /\ IF ~ConverterEnabled(no_convert)
       THEN /\ output_data' = image_data
            /\ output_data_size' = image_data_size
            /\ UNCHANGED <<convVars, ret, conv, logs, ub, hist>>
       ELSE \E x \in ConvEnvs :
              /\ x # ValidFrame(x.w, x.h) => hist.faults < MaxFaults
              /\ LET c == convert_ffmpeg(variant,
                            ConvState(decoder_ctx, packet_obj, sws_ctx, width, height,
                                      ffmpeg_output_buffer, ffmpeg_output_buffer_size,
                                      input_frame, output_frame), x)
                 IN /\ hist' = Acquire(IF x # ValidFrame(x.w, x.h)
                                       THEN Fault(hist) ELSE hist,
                                       ConverterAcquired(c))
                    /\ decoder_ctx' = c.decoder_ctx
                    /\ packet_obj' = c.packet_obj
                    /\ sws_ctx' = c.sws_ctx
                    /\ width' = c.width
                    /\ height' = c.height
                    /\ ffmpeg_output_buffer' = c.ffmpeg_output_buffer
                    /\ ffmpeg_output_buffer_size' = c.ffmpeg_output_buffer_size
                    /\ input_frame' = c.input_frame
                    /\ output_frame' = c.output_frame
                    /\ ret' = c.rv
                    /\ ub' = ub \cup c.ub
                    /\ conv' = [calls |-> 1, result |-> c.rv, stage |-> c.stage,
                                prev |-> conv.prev,
                                inited |-> c.inited, reinit |-> c.reinit,
                                valid |-> (x = ValidFrame(x.w, x.h)),
                                w |-> x.w, h |-> x.h, ub |-> c.ub]
                    /\ output_data' =
                         OutputAfterConvert(c.rv, image_data,
                                            IF c.ffmpeg_output_buffer = "null"
                                            THEN "null" ELSE "buffer")
                    /\ output_data_size' =
                         OutputAfterConvert(c.rv, image_data_size, ReportedSize(c))
                    /\ logs' = IF c.rv < 0
                               THEN logs \cup {LogLine("WARN", "convert", c.rv, 0)}
                               ELSE logs
    /\ UNCHANGED <<cfgVars, devVars, image_data, image_data_size, frame_start,
                   frame_time, target_frame_time, sleep_time, clockVars, gp2_camera,
                   alive, stack, exit_code, nframes, term, wrote>>

(* ----------------------------------------------------------------- sinks *)
\* what write(fd, data, size) may return: an error, a short count, or size;
\* a descriptor that is not open gives an error
WriteResults(fd, size) ==
    IF fd \in fds THEN {-1, size - 1, size} ELSE {-1}

\* errno after a write that returned n: set by a failed write, left as it was
\* (zero or an earlier error's value) by a short one
ErrnoAfter(n) == IF n < 0 THEN {28} ELSE {0, 28}

\* a write_to_v4l2_device that reports every write as done
write_reports_success(n, size) == 0

\* write_to_v4l2_device: -1 when write() fails; a short write is logged at WARN
\* and 0 is returned
write_to_v4l2_device(n, size) == IF n < 0 THEN -1 ELSE 0

\* the line write_to_v4l2_device logs for a write of size bytes that returned n
V4l2WriteLog(n, size) ==
    IF n < 0 THEN {LogLine("FATL", "v4l2 write", 0, 0)}
    ELSE IF n # size THEN {LogLine("WARN", "v4l2 short write", n, size)}
    ELSE {}

\* the file sink takes the frame when it is set; otherwise an open V4L2 device does
SinkVariant == IF file_sink # -1 THEN "file" ELSE IF v4l2_fd > 0 THEN "v4l2" ELSE "none"

\* if (file_sink != -1) { n = write(...); if (n != output_data_size) { ret = errno; break; } }
SinkFile ==
    /\ pc = "sink"
    /\ file_sink # -1
    /\ \E n \in WriteResults(file_sink, output_data_size) :
         \E e \in ErrnoAfter(n) :
           /\ n # output_data_size => hist.faults < MaxFaults
           /\ wrote' = wrote + 1
           /\ hist' = [(IF n # output_data_size THEN Fault(hist) ELSE hist)
                       EXCEPT !.write = [sink |-> "file", n |-> n,
                                              size |-> output_data_size,
                                              frame |-> nframes],
                                   !.fatal_at = IF n # output_data_size
                                                THEN nframes ELSE hist.fatal_at]
           /\ IF n # output_data_size
              THEN Break(e, "file_write",
                         LogLine("FATL", "file sink short write", n, output_data_size))
              ELSE /\ pc' = "loop_end"
                   /\ UNCHANGED <<ret, term, logs>>
    /\ UNCHANGED <<cfgVars, devVars, convVars, loopVars, clockVars, gp2_camera,
                   alive, stack, exit_code, nframes, conv, ub>>

\* a loop whose V4L2 block does not care whether the file sink took the frame
V4l2SinkIgnoresFileSink(fs, vfd) == vfd > 0

\* the V4L2 block of the loop is reached when the file-sink block was not
\* entered (it ends with goto loop_end or break) and runs if (v4l2_fd > 0)
V4l2SinkReached(fs, vfd) == fs = -1 /\ vfd > 0

\* if (v4l2_fd > 0) { 2.0.1: set the format when it is due; write the frame }
\* (2.0.0 passes rgb_data and rgb_data_size, names main does not declare: the
\* frame of this iteration is taken)
SinkV4l2 ==
    /\ pc = "sink"
    /\ V4l2SinkReached(file_sink, v4l2_fd)
    /\ \E fmt_ok \in BOOLEAN, n \in WriteResults(v4l2_fd, output_data_size) :
         LET set_fmt == variant = "v201" /\ v4l2_need_format_set
         IN IF set_fmt /\ ~fmt_ok
            THEN /\ hist.faults < MaxFaults
                 /\ Break(-1, "v4l2_format", LogLine("FATL", "v4l2 format", 0, 0))
                 /\ hist' = [Fault(hist) EXCEPT !.fatal_at = nframes]
                 /\ UNCHANGED <<v4l2_fmt, v4l2_need_format_set, wrote>>
            ELSE /\ n # output_data_size => hist.faults < MaxFaults
                 /\ v4l2_fmt' = IF set_fmt THEN <<width, height>> ELSE v4l2_fmt
                 /\ v4l2_need_format_set' = (v4l2_need_format_set /\ ~set_fmt)
                 /\ wrote' = wrote + 1
                 /\ hist' = [(IF n # output_data_size THEN Fault(hist) ELSE hist)
                             EXCEPT !.write = [sink |-> "v4l2", n |-> n,
                                                    size |-> output_data_size,
                                                    frame |-> nframes],
                                         !.fatal_at = IF n < 0 THEN nframes
                                                      ELSE hist.fatal_at]
                 /\ IF write_to_v4l2_device(n, output_data_size) < 0
                    THEN Break(write_to_v4l2_device(n, output_data_size), "v4l2_write",
                               LogLine("FATL", "v4l2 write", 0, 0))
                    ELSE /\ pc' = "loop_end"
                         /\ ret' = write_to_v4l2_device(n, output_data_size)
                         /\ logs' = logs \cup V4l2WriteLog(n, output_data_size)
                         /\ UNCHANGED term
    /\ UNCHANGED <<cfgVars, v4l2_fd, v4l2loopback_fd, v4l2_dev_path, fds, devices,
                   convVars, loopVars, clockVars, gp2_camera, alive, stack,
                   exit_code, nframes, conv, ub>>

\* neither sink: the frame is dropped
SinkNone ==
    /\ pc = "sink"
    /\ file_sink = -1
    /\ ~(v4l2_fd > 0)
    /\ pc' = "loop_end"
    /\ UNCHANGED <<cfgVars, devVars, convVars, loopVars, clockVars, histVars, ret,
                   gp2_camera, alive, stack, exit_code>>

(* ----------------------------------------------------------- loop_end *)
\* the time the pacer measures for this iteration: 2.0.1 reads CLOCK_MONOTONIC
\* (ns), 2.0.0 reads clock(), the processor time used (ticks)
MeasuredFrameTime(v, start, t, c) ==
    IF v = "v201" THEN TimespecDiff(clock_gettime(t), start) ELSE c - start

\* (a * b) / c in 64-bit long arithmetic, where the product does not overflow:
\* equal factors cancel, so that the product need not be formed
MulDiv(a, b, c) == IF b = c THEN a ELSE (a * b) \div c

\* the sleep asked for: 2.0.1 nanosleep's tv_nsec, 2.0.0 usleep's microseconds
SleepRequest(v, target, ft) ==
    IF v = "v201" THEN target - ft
    ELSE MulDiv(target - ft, USEC_PER_SEC, CLOCKS_PER_SEC)

\* a sleep request in nanoseconds
SleepNs(v, req) == IF v = "v201" THEN req ELSE req * (NSEC_PER_SEC \div USEC_PER_SEC)

\* loop_end: the clock is read, the work of the iteration having taken some
\* time; the iteration is measured and the remainder slept if it was short
LoopEnd ==
    /\ pc = "loop_end"
    /\ \E w \in WorkTimes :
       LET ft == MeasuredFrameTime(variant, frame_start, now + w.wall, cpu + w.cpu)
       IN /\ now' = now + w.wall
          /\ cpu' = cpu + w.cpu
          /\ frame_time' = ft
          /\ IF ft < target_frame_time
             THEN /\ sleep_time' = SleepRequest(variant, target_frame_time, ft)
                  /\ pc' = "sleeping"
                  /\ hist' = [hist EXCEPT
                        !.measured = ft, !.elapsed = now' - hist.start_wall,
                        !.slept = SleepNs(variant,
                                          SleepRequest(variant, target_frame_time, ft))]
             ELSE /\ pc' = "loop_top"
                  /\ hist' = [hist EXCEPT !.measured = ft,
                                          !.elapsed = now' - hist.start_wall,
                                          !.slept = 0]
                  /\ UNCHANGED sleep_time
    /\ UNCHANGED <<cfgVars, devVars, convVars, image_data, image_data_size,
                   output_data, output_data_size, frame_start, target_frame_time,
                   ret, gp2_camera, alive, stack, exit_code, nframes,
                   term, conv, wrote, logs, ub>>

\* nanosleep / usleep returns: after at least the time asked for, or at once
\* when a signal handler ran meanwhile (EINTR) or tv_nsec is out of range (EINVAL)
Sleep ==
    /\ pc = "sleeping"
    /\ pc' = "loop_top"
    /\ LET ns == SleepNs(variant, sleep_time)
       IN \/ /\ variant = "v201" => sleep_time \in 0..(NSEC_PER_SEC - 1)
             /\ \E o \in Oversleep : now' = now + ns + o
          \/ /\ ~alive \/ (variant = "v201" /\ sleep_time \notin 0..(NSEC_PER_SEC - 1))
             /\ now' = now
    /\ UNCHANGED <<cfgVars, devVars, convVars, loopVars, cpu, histVars, ret,
                   gp2_camera, alive, stack, exit_code>>

(* -------------------------------------------------------------- cleanup *)
\* if (file_sink) close(file_sink): every value but 0 is closed, -1 included
CloseFileSink(open) == IF file_sink # 0 THEN open \ {file_sink} ELSE open

\* the frees of the ffmpeg objects: the frames, the decoder context and the packet
\* are set to NULL by their free functions, the buffer pointer is left as it is
FreedBuffer(buf) == IF buf = "null" THEN "null" ELSE "freed"

\* a cleanup that releases in the reverse of the order of acquisition
StrictReverseOrder(v) ==
    IF v = "v201"
    THEN <<"buffer", "sws_ctx", "packet_obj", "decoder_ctx", "output_frame",
           "input_frame", "v4l2_fd", "device", "v4l2loopback_fd", "gp2_file",
           "camlist", "camera", "context", "file_sink">>
    ELSE <<"buffer", "sws_ctx", "packet_obj", "decoder_ctx", "v4l2_fd",
           "output_frame", "input_frame", "gp2_file", "camera", "context",
           "file_sink">>

\* the order of the releasing statements of cleanup
ReleaseOrder(v) ==
    IF v = "v201"
    THEN <<"file_sink", "v4l2_fd", "device", "v4l2loopback_fd", "buffer", "sws_ctx",
           "output_frame", "input_frame", "decoder_ctx", "packet_obj", "camlist",
           "gp2_file", "camera", "context">>
    ELSE <<"file_sink", "v4l2_fd", "buffer", "sws_ctx", "output_frame",
           "input_frame", "decoder_ctx", "packet_obj", "gp2_file", "camera",
           "context">>

\* what the "general" and "v4l2" parts of cleanup release
SinkResources == {"file_sink", "v4l2_fd", "device", "v4l2loopback_fd"}

\* the test that guards the release of r in cleanup, for a resource of this run
Held(r) ==
    /\ r \in Range(hist.acquired)
    /\ CASE r = "file_sink" -> file_sink # 0
         [] r = "v4l2_fd" -> IF variant = "v201" THEN v4l2_fd > 0 ELSE v4l2_fd >= 0
         [] r \in {"device", "v4l2loopback_fd"} -> v4l2loopback_fd > 0
         [] r = "buffer" -> ffmpeg_output_buffer # "null"
         [] r = "sws_ctx" -> sws_ctx # <<0, 0>>
         [] r = "output_frame" -> output_frame.alloc
         [] r = "input_frame" -> input_frame.alloc
         [] r = "decoder_ctx" -> decoder_ctx # "null"
         [] r = "packet_obj" -> packet_obj # "null"
         [] r = "camera" -> gp2_camera # NoCamera
         [] OTHER -> TRUE

\* hist.released: what the cleanup of this main has released, in order
Released(order, part) ==
    LET Now(r) == r \in part /\ Held(r)
    IN SelectSeq(order, Now)

\* the value ret has after the LOOP_CTL_REMOVE of cleanup: the ioctl's result
\* when the control device is open, ret as it was otherwise
RetAfterRemove(r, lfd, rm) == IF lfd > 0 THEN rm ELSE r

\* 2.0.1 cleanup: close the sinks, remove the loopback device, free everything
\* and return ret < 0 ? 1 : 0
Cleanup201 ==
    /\ pc = "cleanup"
    /\ variant = "v201"
    /\ \E rm \in (IF v4l2_dev_num >= 0 THEN {0, -1} ELSE {-1}) :
         LET r == RetAfterRemove(ret, v4l2loopback_fd, rm)
         IN /\ fds' = ((CloseFileSink(fds) \ (IF v4l2_fd > 0 THEN {v4l2_fd} ELSE {}))
                       \ (IF v4l2loopback_fd > 0 THEN {v4l2loopback_fd} ELSE {}))
            /\ v4l2_fd' = IF v4l2_fd > 0 THEN -1 ELSE v4l2_fd
            /\ v4l2loopback_fd' = IF v4l2loopback_fd > 0 THEN -1 ELSE v4l2loopback_fd
            /\ devices' = IF v4l2loopback_fd > 0 /\ rm = 0
                          THEN devices \ {v4l2_dev_num} ELSE devices
            /\ logs' = IF v4l2loopback_fd > 0 /\ rm < 0
                       THEN logs \cup {LogLine("WARN", "remove device", v4l2_dev_num, 0)}
                       ELSE logs
            /\ hist' = [hist EXCEPT
                          !.ret_at_cleanup = ret,
                          !.released = Released(ReleaseOrder(variant),
                                                Range(ReleaseOrder(variant))),
                          !.remove = IF v4l2loopback_fd > 0
                                     THEN (IF rm = 0 THEN "ok" ELSE "failed")
                                     ELSE "none"]
            /\ pc' = "done"
            /\ ret' = r
            /\ exit_code' = ExitStatus(MainReturn(r))
    /\ ffmpeg_output_buffer' = FreedBuffer(ffmpeg_output_buffer)
    /\ output_frame' = [output_frame EXCEPT !.alloc = FALSE]
    /\ input_frame' = [input_frame EXCEPT !.alloc = FALSE]
    /\ decoder_ctx' = "null"
    /\ packet_obj' = "null"
    /\ gp2_camera' = NoCamera
    /\ UNCHANGED <<cfgVars, v4l2_need_format_set, v4l2_dev_path, v4l2_fmt, sws_ctx,
                   width, height, ffmpeg_output_buffer_size, loopVars, clockVars,
                   alive, stack, nframes, term, conv, wrote, ub>>

\* a cleanup that never calls main again
NeverRestart(sw, al) == FALSE

\* restart if we are daemonized: if (should_wait && alive) main(argc, argv)
RestartWanted(sw, al) == sw /\ al

\* 2.0.0 cleanup, first part: close the sinks; with --wait and alive, main calls
\* itself (its locals and ret stay on the stack of the calling main)
Cleanup200 ==
    /\ pc = "cleanup"
    /\ variant = "v200"
    /\ fds' = CloseFileSink(fds) \ (IF v4l2_fd >= 0 THEN {v4l2_fd} ELSE {})
    /\ v4l2_fd' = IF v4l2_fd >= 0 THEN -1 ELSE v4l2_fd
    /\ IF RestartWanted(should_wait, alive)
       THEN /\ Len(stack) < MaxRestarts
            /\ stack' = <<[ret |-> ret, gp2_camera |-> gp2_camera]>> \o stack
            /\ pc' = "cli"
            /\ ret' = 0
            /\ gp2_camera' = NoCamera
            /\ term' = "none"
            /\ hist' = [hist EXCEPT !.ret_at_cleanup = ret, !.iterations = 0,
                                    !.write = NoWrite, !.fatal_at = 0,
                                    !.restarts = hist.restarts + 1,
                                    !.released = Released(ReleaseOrder(variant),
                                                          SinkResources)]
       ELSE /\ pc' = "cleanup_tail"
            /\ hist' = [hist EXCEPT !.ret_at_cleanup = ret,
                                    !.released = Released(ReleaseOrder(variant),
                                                          SinkResources)]
            /\ UNCHANGED <<stack, ret, gp2_camera, term>>
    /\ UNCHANGED <<cfgVars, v4l2loopback_fd, v4l2_need_format_set, v4l2_dev_path,
                   v4l2_fmt, devices, convVars, loopVars, clockVars, alive,
                   exit_code, nframes, conv, wrote, logs, ub>>

\* sws_freeContext(sws_ctx) leaves the pointer as it is: it dangles afterwards
FreedContext(sc) == IF sc = <<0, 0>> THEN sc ELSE <<-1, -1>>

\* the frees of cleanup meet a pointer that an earlier pass of the same frees,
\* in the main that was called for the restart, has left dangling
FreedTwice(buf, sc) == buf = "freed" \/ sc = <<-1, -1>>

\* 2.0.0 cleanup, second part: free everything and return ret < 0 ? 1 : 0.
\* Freeing a dangling pointer is undefined: the allocator aborts the process
\* (SIGABRT) or the frees go through
CleanupTail200 ==
    /\ pc = "cleanup_tail"
    /\ ffmpeg_output_buffer' = FreedBuffer(ffmpeg_output_buffer)
    /\ sws_ctx' = FreedContext(sws_ctx)
    /\ output_frame' = [output_frame EXCEPT !.alloc = FALSE]
    /\ input_frame' = [input_frame EXCEPT !.alloc = FALSE]
    /\ decoder_ctx' = "null"
    /\ packet_obj' = "null"
    /\ ub' = IF FreedTwice(ffmpeg_output_buffer, sws_ctx)
             THEN ub \cup {"double_free"} ELSE ub
    /\ hist' = [hist EXCEPT !.released =
                   hist.released \o Released(ReleaseOrder(variant),
                                             Range(ReleaseOrder(variant)) \ SinkResources)]
    /\ \/ /\ FreedTwice(ffmpeg_output_buffer, sws_ctx)
          /\ pc' = "done"
          /\ exit_code' = 134
          /\ UNCHANGED <<stack, ret, gp2_camera>>
       \/ IF stack = <<>>
          THEN /\ pc' = "done"
               /\ exit_code' = ExitStatus(MainReturn(ret))
               /\ gp2_camera' = NoCamera
               /\ UNCHANGED <<stack, ret>>
          ELSE /\ pc' = "cleanup_tail"
               /\ ret' = Head(stack).ret
               /\ gp2_camera' = Head(stack).gp2_camera
               /\ stack' = Tail(stack)
               /\ UNCHANGED exit_code
    /\ UNCHANGED <<cfgVars, devVars, width, height, ffmpeg_output_buffer_size,
                   loopVars, clockVars, alive, nframes, term, conv, wrote, logs>>

\* a handler that also writes a log line
InterruptLogs ==
    /\ pc \notin {"done"}
    /\ pc = "cli" => stack # <<>>
    /\ alive
    /\ alive' = FALSE
    /\ logs' = logs \cup {LogLine("INFO", "interrupt", 0, 0)}
    /\ UNCHANGED <<cfgVars, devVars, convVars, loopVars, clockVars, nframes, term,
                   conv, wrote, ub, hist, pc, ret, gp2_camera, stack, exit_code>>

(* ------------------------------------------------------------- interrupt *)
\* a handler that abandons the iteration in flight: control goes to cleanup
InterruptPreempts ==
    /\ pc \notin {"done"}
    /\ pc = "cli" => stack # <<>>
    /\ alive
    /\ alive' = FALSE
    /\ pc' = IF pc \in {"capture", "get_data", "convert", "sink", "loop_end", "sleeping"}
             THEN "cleanup" ELSE pc
    /\ UNCHANGED <<cfgVars, devVars, convVars, loopVars, clockVars, histVars,
                   ret, gp2_camera, stack, exit_code>>

\* sig_handler: if (signo == SIGINT) alive = false; installed by main after cli
Interrupt ==
    /\ pc \notin {"done"}
    /\ pc = "cli" => stack # <<>>
    /\ alive
    /\ alive' = FALSE
    /\ UNCHANGED <<cfgVars, devVars, convVars, loopVars, clockVars, histVars, pc,
                   ret, gp2_camera, stack, exit_code>>

(* ------------------------------------------------------------------ Next *)
Next ==
    \/ MainCli
    \/ PrivilegeReexec
    \/ CameraNew
    \/ Autodetect
    \/ SelectCamera
    \/ CameraInit
    \/ WaitInit
    \/ FileNew
    \/ InitV4l2
    \/ AllocFrames
    \/ PaceSetup
    \/ LoopTop
    \/ Capture
    \/ GetData
    \/ Convert
    \/ SinkFile
    \/ SinkV4l2
    \/ SinkNone
    \/ LoopEnd
    \/ Sleep
    \/ Cleanup201
    \/ Cleanup200
    \/ CleanupTail200
    \/ Interrupt

Spec == Init /\ [][Next]_vars

(* ============================================================ properties *)
\* program positions inside the main loop
LoopPcs == {"loop_top", "capture", "get_data", "convert", "sink", "loop_end", "sleeping"}

\* the process has exited from the main that was started first, never re-entered
ExitedFirstMain == pc = "done" /\ hist.restarts = 0

\* C1: when the loop ends because gp_camera_capture_preview or
\* gp_file_get_data_and_size fails, the exit code of main is non-zero, whatever
\* cleanup does and whichever sink is configured.
C1_CaptureFailureExitsNonZero ==
    (ExitedFirstMain /\ term = "capture") => exit_code # 0

\* C2: file sink: a write() that returns anything but the output size ends the
\* loop at once (no retry, no later frame written), an error naming the bytes
\* written and the bytes expected is logged, and, whenever cleanup leaves ret as
\* it was (no loopback device to remove), the exit code is non-zero.
C2_FileShortWriteFatal ==
    (hist.write.sink = "file" /\ hist.write.n # hist.write.size) =>
        /\ pc \notin LoopPcs
        /\ term = "file_write"
        /\ hist.write.frame = nframes
        /\ LogLine("FATL", "file sink short write", hist.write.n, hist.write.size) \in logs
        /\ (pc = "done" /\ hist.remove = "none") => exit_code # 0

C4_InterruptExitsZero ==
    (ExitedFirstMain /\ term = "interrupt" /\ hist.remove # "failed") => exit_code = 0

\* C5: the exit code is decided by the value ret has when cleanup is entered:
\* the result of LOOP_CTL_REMOVE in cleanup does not alter it.
C5_TeardownKeepsExitCode ==
    (pc = "done" /\ hist.remove # "none") => exit_code = MainReturn(hist.ret_at_cleanup)

\* C6: every failure while initializing goes straight to cleanup: no iteration
\* of the loop runs, and, whenever cleanup leaves ret as it was (no loopback
\* device to remove), the exit code is non-zero.
C6_SetupFailureExitsNonZero ==
    (ExitedFirstMain /\ term = "setup") =>
        /\ nframes = 0
        /\ hist.iterations = 0
        /\ hist.remove = "none" => exit_code # 0

\* C7: with a target frame rate of 0 accepted by cli, the target interval is
\* computed without a division by zero and no iteration sleeps.
C7_FpsZeroNoDivisionNoSleep ==
    (target_fps = 0 /\ pc \in LoopPcs \cup {"cleanup", "done"}) =>
        /\ "div_by_zero" \notin ub
        /\ term # "sigfpe"
        /\ hist.slept \in {-1, 0}

\* C8: for a frame rate above 0, an iteration that has reached loop_end sleeps
\* exactly the target interval minus the elapsed time when the elapsed time is
\* below the target and does not sleep otherwise (never a negative time), and
\* the next iteration starts no sooner than the target interval after this one.
C8_PacerSleepsRemainder ==
    LET target == TargetNs(variant, target_frame_time)
    IN (target_fps > 0 /\ hist.slept >= 0 /\ pc \in {"sleeping", "loop_top"}) =>
          /\ hist.elapsed < target => hist.slept = target - hist.elapsed
          /\ hist.elapsed >= target => hist.slept = 0
          /\ (pc = "loop_top" /\ alive) => now - hist.start_wall >= target

\* the converter fields that outlive a call
PersistentConverter ==
    <<decoder_ctx, sws_ctx, width, height, ffmpeg_output_buffer, ffmpeg_output_buffer_size>>

\* the stages at which the decoder fails
DecodeStages == {"send", "receive"}

C10_ReportedSizeIsFrameSize ==
    (pc = "sink" /\ conv.calls = 1 /\ conv.result = 0 /\ hist.faults = 0) =>
        output_data_size = conv.w * conv.h * BytesPerPixel(variant)

\* the bytes allocated behind the output buffer pointer: the recorded size while
\* the pointer holds a live allocation, none when it is NULL or freed
Capacity(buf, size) == IF buf = "live" THEN size ELSE 0

\* a step that is one call of the converter
ConvertCall == pc = "convert" /\ pc' = "sink" /\ ~no_convert

\* C11: across every convert call the allocated capacity of the output buffer
\* does not decrease, and the size a successful call reports is at most that
\* capacity.
C11_SizeWithinCapacityNeverShrinks ==
    [][ConvertCall =>
         /\ Capacity(ffmpeg_output_buffer', ffmpeg_output_buffer_size')
              >= Capacity(ffmpeg_output_buffer, ffmpeg_output_buffer_size)
         /\ conv'.result = 0 =>
              output_data_size' <= Capacity(ffmpeg_output_buffer',
                                            ffmpeg_output_buffer_size')]_vars

\* the converter call of this step got a picture from the decoder
Decoded == StageKind(conv'.stage) \in {"rescale", "scale", "ok"}

\* the picture decoded by the previous call differs in size from this one's
\* (input_frame still holds the previous picture's size before the call)
DimensionsChanged ==
    <<input_frame.width, input_frame.height>> # <<conv'.w, conv'.h>>

\* C12 as stated: for two frames decoded one after the other, the second one
\* sets the rescale context and the output frame up anew exactly when its size
\* differs from the first one's.
C12_ReinitExactlyOnDimensionChange ==
    [][(ConvertCall /\ Decoded /\ input_frame.width # 0) =>
         (conv'.reinit <=> DimensionsChanged)]_vars

\* C12: the same, for a second frame that finds a rescale context in place;
\* when sws_getContext failed on the first frame, the second one tries again.
C12_ReinitOnChangeOrMissingContext ==
    [][(ConvertCall /\ Decoded /\ input_frame.width # 0) =>
         /\ sws_ctx # <<0, 0>> => (conv'.reinit <=> DimensionsChanged)
         /\ sws_ctx = <<0, 0>> => conv'.reinit]_vars

\* a frame converted after a successful call, with a set-up for its new size
C12_Witness ==
    /\ pc = "sink"
    /\ conv.calls = 1
    /\ conv.prev = "ok"
    /\ conv.result = 0
    /\ conv.reinit
    /\ sws_ctx = <<conv.w, conv.h>>

\* nothing of the converter has been set up: no frames, decoder, packet, rescale
\* context or output buffer, and no call made
ConverterUninitialised ==
    /\ decoder_ctx = "null"
    /\ packet_obj = "null"
    /\ sws_ctx = <<0, 0>>
    /\ ffmpeg_output_buffer = "null"
    /\ ffmpeg_output_buffer_size = 0
    /\ ~input_frame.alloc
    /\ ~output_frame.alloc
    /\ conv.calls = 0

\* C13: with --no-convert the converter is never called and its state stays
\* uninitialised for the whole run; in every iteration the sink is handed the
\* captured frame itself with the captured size, and what a sink has written
\* was asked for with that size.
C13_NoConvertPassesRawFrame ==
    no_convert =>
        /\ ConverterUninitialised
        /\ pc = "sink" =>
             /\ output_data = "image"
             /\ output_data = image_data
             /\ output_data_size = image_data_size
        /\ (pc \in LoopPcs /\ hist.write.sink # "none") =>
             hist.write.size = image_data_size

\* a raw frame has been written in full by a sink under --no-convert
C13_Witness ==
    /\ no_convert
    /\ pc = "loop_end"
    /\ hist.write.sink # "none"
    /\ hist.write.n = image_data_size
    /\ output_data = image_data

\* program positions inside one iteration, after the loop condition was read
IterationPcs == {"capture", "get_data", "convert", "sink", "loop_end", "sleeping"}

\* the position that follows each step of an iteration that goes on
NextInIteration ==
    [capture |-> {"get_data"}, get_data |-> {"convert"}, convert |-> {"sink"},
     sink |-> {"loop_end"}, loop_end |-> {"sleeping", "loop_top"},
     sleeping |-> {"loop_top"}]

\* C14: alive is read at the loop condition only. The handler changes nothing
\* but the flag; with the flag already false an iteration in flight goes on step
\* by step (capture, data, convert, sink write, pacing) and is left early only
\* by a failure of its own; the write it makes is the one of its frame; once the
\* flag is false no iteration is entered, from the loop condition or from
\* anywhere outside the loop, and the flag stays false.
C14_InterruptSeenOnlyAtLoopTop ==
    [][/\ (alive /\ ~alive') =>
             UNCHANGED <<pc, ret, wrote, nframes, hist, convVars, loopVars, fds>>
       /\ (~alive /\ pc \in IterationPcs /\ pc' # pc) =>
             \/ pc' \in NextInIteration[pc]
             \/ pc' = "cleanup" /\ hist'.faults = hist.faults + 1
                                /\ term' # "interrupt"
       /\ (~alive /\ pc = "sink" /\ pc' = "loop_end" /\ SinkVariant # "none") =>
             /\ wrote' = wrote + 1
             /\ hist'.write.frame = nframes
             /\ hist'.write.size = output_data_size
             /\ hist'.write.n >= 0
             /\ SinkVariant = "file" => hist'.write.n = output_data_size
       /\ (~alive /\ pc = "loop_top" /\ pc' # pc) =>
             pc' = "cleanup" /\ nframes' = nframes /\ wrote' = wrote
       /\ (~alive /\ pc \notin LoopPcs) =>
             pc' \notin IterationPcs /\ nframes' = nframes /\ wrote' = wrote
       /\ ~alive => ~alive']_vars

\* an interrupt was delivered inside an iteration, whose frame a sink has
\* nonetheless written in full
C14_Witness ==
    /\ ~alive
    /\ pc = "loop_end"
    /\ hist.write.sink # "none"
    /\ hist.write.frame = nframes
    /\ hist.write.n = hist.write.size

\* C15: a command line that asks for --version or --help makes the process exit
\* with code 0, without a camera object, a device, a sink write or an iteration
\* of the loop.
C15_InfoCommandsExitZero ==
    (pc = "done" /\ argv.info \in {"version", "help"}) =>
        /\ exit_code = 0
        /\ term = "cli"
        /\ gp2_camera = NoCamera
        /\ devices = {}
        /\ v4l2_fd = -1
        /\ nframes = 0
        /\ wrote = 0

\* C16: once the camera is initialised in 2.0.1, it is bound to the detected
\* camera that --camera named, whatever the position i of that camera in the
\* autodetect list: the abilities are those of its model and the port is the one
\* recorded in list entry i; without --camera it is bound to the first
\* detected camera.
C16_CameraBoundToNamedEntry ==
    (variant = "v201" /\ gp2_camera.state = "init") =>
        /\ (argv.c /\ hist.index >= 0) =>
              gp2_camera.abilities = hist.index /\ gp2_camera.port = hist.index
        /\ ~argv.c => gp2_camera.abilities = 0 /\ gp2_camera.port = 0

\* C17: while the file sink is set, no step of the loop writes to the V4L2
\* device or sets its format; the only step that writes is the sink step, it
\* writes the frame of the iteration once, to the file sink, and an iteration
\* does not get past its sink step without that write.
C17_FileSinkExcludesV4l2 ==
    [][(file_sink # -1 /\ pc \in LoopPcs) =>
         /\ v4l2_fmt' = v4l2_fmt
         /\ v4l2_need_format_set' = v4l2_need_format_set
         /\ hist'.write.sink # "v4l2"
         /\ wrote' # wrote =>
              /\ pc = "sink"
              /\ wrote' = wrote + 1
              /\ hist'.write.sink = "file"
              /\ hist'.write.frame = nframes
         /\ (pc = "sink" /\ pc' = "loop_end") => wrote' = wrote + 1]_vars

\* an iteration has written its frame to the file sink while a V4L2 device was
\* open and, in 2.0.1, still waiting for its format
C17_Witness ==
    /\ file_sink # -1
    /\ v4l2_fd > 0
    /\ variant = "v201" => v4l2_need_format_set
    /\ pc = "loop_end"
    /\ hist.write.sink = "file"
    /\ hist.write.frame = nframes
    /\ hist.write.n = output_data_size

\* C18: in 2.0.0 with --wait parsed, while alive is true the wait loop is left
\* only with the camera initialised (a failed gp_camera_init is tried again),
\* cleanup is left only by calling main again, and the process exits only with
\* alive false.
C18_WaitKeepsProcessRunning ==
    [][(variant = "v200" /\ should_wait) =>
         /\ (pc = "wait_init" /\ alive /\ pc' # pc) =>
              pc' = "file_new" /\ ret' = GP_OK /\ gp2_camera'.state = "init"
         /\ (pc = "cleanup" /\ alive /\ pc' # pc) =>
              /\ pc' = "cli"
              /\ Len(stack') = Len(stack) + 1
              /\ hist'.restarts = hist.restarts + 1
         /\ (pc # "done" /\ pc' = "done") => ~alive]_vars

\* main was called again after a failure and the process has exited since
C18_Witness ==
    /\ variant = "v200"
    /\ should_wait
    /\ hist.restarts >= 1
    /\ pc = "done"
    /\ ~alive

\* C19: a convert call that reports success right after a call that failed in
\* the rescale step (sws_getContext, av_malloc, av_image_fill_arrays or
\* sws_scale) returns the output buffer, non-null and allocated, and the scaler
\* has written it through an output frame laid out for this picture's size.
C19_SuccessAfterRescaleFailureIsSound ==
    (pc = "sink" /\ conv.calls = 1 /\ conv.result = 0
       /\ conv.prev \in {"rescale", "scale"}) =>
        /\ output_data = "buffer"
        /\ ffmpeg_output_buffer = "live"
        /\ output_frame.data = "buf"
        /\ <<output_frame.width, output_frame.height>> = <<conv.w, conv.h>>
        /\ sws_ctx = <<conv.w, conv.h>>
        /\ ffmpeg_output_buffer_size >= av_image_get_buffer_size(variant, conv.w, conv.h)
        /\ conv.ub = {}

\* the step in which gp_camera_capture_preview or gp_file_get_data_and_size fails
CaptureFails == ~hist.capture_failed /\ hist'.capture_failed

\* a step that converts a frame or hands one to a sink
ConvertsOrWrites == (pc = "convert" /\ pc' = "sink") \/ wrote' # wrote

\* C20 as stated: the step in which a capture fails leaves the loop for cleanup
\* without converting or writing, and no frame is converted or written at any
\* time after it.
C20_NoOutputAfterCaptureFailure ==
    [][/\ CaptureFails =>
            pc \in {"capture", "get_data"} /\ pc' = "cleanup" /\ ~ConvertsOrWrites
       /\ hist.capture_failed => ~ConvertsOrWrites]_vars

\* C20: the step in which a capture fails leaves the loop for cleanup without
\* converting or writing, and nothing is captured, converted or written from
\* then on until the process exits or, in 2.0.0 with --wait, cleanup calls main
\* again.
C20_CaptureFailureEndsLoopRun ==
    [][/\ CaptureFails =>
            /\ pc \in {"capture", "get_data"}
            /\ pc' = "cleanup"
            /\ term' = "capture"
            /\ ret' # GP_OK
            /\ ~ConvertsOrWrites
            /\ UNCHANGED <<convVars, output_data, output_data_size>>
       /\ term = "capture" =>
            /\ ~ConvertsOrWrites
            /\ nframes' = nframes
            /\ pc \in {"cleanup", "cleanup_tail", "done"}
            /\ pc' \in {"cleanup", "cleanup_tail", "done"}
                 \/ (pc = "cleanup" /\ pc' = "cli" /\ variant = "v200" /\ should_wait)]_vars

\* the second capture of a run has failed and the process has gone through
\* cleanup to its exit with one frame written
C20_Witness ==
    /\ hist.capture_failed
    /\ term = "capture"
    /\ pc = "done"
    /\ nframes = 2
    /\ wrote = 1

\* C21: with conversion enabled, a convert call that fails leaves the raw frame
\* of this iteration and its size as the output, logs a warning and goes on to
\* the sink; the write that follows is asked for that size. The call of the
\* next iteration, when it succeeds, hands out the converter's buffer and size
\* again.
C21_FallbackForThisIterationOnly ==
    [][/\ (ConvertCall /\ conv'.result < 0) =>
            /\ pc' = "sink"
            /\ output_data' = image_data
            /\ output_data' = "image"
            /\ output_data_size' = image_data_size
            /\ LogLine("WARN", "convert", conv'.result, 0) \in logs'
            /\ term' = term
       /\ (pc = "sink" /\ ~no_convert /\ conv.result < 0 /\ wrote' # wrote) =>
            hist'.write.size = image_data_size
       /\ (ConvertCall /\ conv'.prev \notin {"ok", "none"} /\ conv'.result = 0) =>
            /\ output_data' # image_data
            /\ ffmpeg_output_buffer' = "live" => output_data' = "buffer"
            /\ output_data_size' = ffmpeg_output_buffer_size']_vars

\* a frame has been converted and handed on right after a frame that went out raw
C21_Witness ==
    /\ pc = "loop_end"
    /\ conv.calls = 1
    /\ conv.prev \notin {"ok", "none"}
    /\ conv.result = 0
    /\ output_data = "buffer"
    /\ hist.write.sink # "none"
    /\ hist.write.size = ffmpeg_output_buffer_size

\* C22: when the converter finds no video stream in the first frame, the run is
\* over: the loop has been left for cleanup with a line logged at FATAL, no
\* frame has been handed to a sink, and the exit code is not zero.
C22_NoVideoStreamIsFatal ==
    (nframes = 1 /\ conv.calls = 1 /\ conv.stage = "no_video_stream") =>
        /\ pc \in {"cleanup", "cleanup_tail", "done"}
        /\ \E l \in logs : l.level = "FATL"
        /\ wrote = 0
        /\ pc = "done" => exit_code # 0

\* a step that writes a frame to the V4L2 device
V4l2Write == pc = "sink" /\ wrote' = wrote + 1 /\ hist'.write.sink = "v4l2"

\* setup_v4l2_format was called, and succeeded, in this step of the loop
FormatSetIssued == v4l2_need_format_set /\ ~v4l2_need_format_set'

\* the frame being written was converted to a size other than that of the
\* frame converted before it
WrittenAfterDimensionChange ==
    conv.calls = 1 /\ conv.result = 0 /\ conv.reinit /\ conv.prev = "ok"

\* C23: a write to the V4L2 device comes with a format-set call when it is the
\* first write to the device (2.0.1) and when it is the first write after the
\* converter's width/height changed, and with none otherwise.
C23_FormatSetOnFirstUseAndDimensionChange ==
    [][V4l2Write =>
         (FormatSetIssued <=>
            (variant = "v201" /\ wrote = 0) \/ WrittenAfterDimensionChange)]_vars

\* C24: every write to the V4L2 device finds a format configured on it (by a
\* call that succeeded, in this step or before); a format-set call that fails
\* in the loop ends the run without a write; and the loop issues the call only
\* while no format is configured and no frame has been written, not once per
\* frame.
C24_FormatConfiguredBeforeWrite ==
    [][/\ V4l2Write => v4l2_fmt' # <<0, 0>> /\ ~v4l2_need_format_set'
       /\ (pc = "sink" /\ term' = "v4l2_format" /\ term # term') =>
            wrote' = wrote /\ hist'.write = hist.write /\ pc' = "cleanup"
       /\ FormatSetIssued =>
            /\ v4l2_fmt = <<0, 0>>
            /\ wrote = 0
            /\ v4l2_fmt' = <<width, height>>]_vars

\* the second frame and later ones have been written to a device whose format
\* was set with the first write
C24_Witness ==
    /\ variant = "v201"
    /\ pc = "loop_end"
    /\ hist.write.sink = "v4l2"
    /\ wrote >= 2
    /\ v4l2_fmt # <<0, 0>>
    /\ ~v4l2_need_format_set

\* the frame size the device has been configured for: sizeimage of setup_v4l2_format
ConfiguredSize == v4l2_fmt[1] * v4l2_fmt[2] * BytesPerPixel(variant)

\* C25: every buffer written to the V4L2 device has the size of the configured
\* format, width * height * bytes per pixel.
C25_WrittenSizeMatchesFormat ==
    (hist.write.sink = "v4l2" /\ pc \in LoopPcs) => hist.write.size = ConfiguredSize

\* this call replaced a rescale context that was in place, or freed and
\* allocated anew an output buffer that was in place
RescaleRecreated ==
    \/ sws_ctx # <<0, 0>> /\ conv'.reinit
    \/ /\ ffmpeg_output_buffer = "live"
       /\ \/ ffmpeg_output_buffer' # "live"
          \/ ffmpeg_output_buffer_size' # ffmpeg_output_buffer_size

\* the picture decoded in this call differs in size from the recorded width/height
DiffersFromLastSeen == <<width, height>> # <<conv'.w, conv'.h>>

\* an established decoder context stays as it is through a convert call, and the
\* one-time initialisation runs only in a call that found none
DecoderCreatedOnce ==
    /\ decoder_ctx = "open" => decoder_ctx' = "open" /\ ~conv'.inited
    /\ conv'.inited => decoder_ctx = "null" /\ decoder_ctx' = "open"

\* C26 as stated: a convert call never sets up a decoder where one is
\* established, and replaces the rescale context or the output buffer only when
\* the decoded size differs from the recorded width/height.
C26_RecreatedOnlyOnDimensionChange ==
    [][ConvertCall =>
         /\ DecoderCreatedOnce
         /\ (Decoded /\ RescaleRecreated) => DiffersFromLastSeen]_vars

\* C26: the same, with the case in which the previous set-up stopped at a failed
\* sws_getContext: no rescale context is in place then, the set-up runs again
\* for a picture of the recorded size and may replace the output buffer.
C26_RecreatedOnChangeOrMissingContext ==
    [][ConvertCall =>
         /\ DecoderCreatedOnce
         /\ (Decoded /\ RescaleRecreated) =>
               DiffersFromLastSeen \/ sws_ctx = <<0, 0>>
         /\ (Decoded /\ sws_ctx # <<0, 0>> /\ ~DiffersFromLastSeen) =>
               UNCHANGED <<sws_ctx, ffmpeg_output_buffer, ffmpeg_output_buffer_size>>]_vars

\* a later frame of the same size has been converted with the decoder, the
\* rescale context and the output buffer of the frame before it
C26_Witness ==
    /\ pc = "sink"
    /\ nframes >= 2
    /\ conv.calls = 1
    /\ conv.prev = "ok"
    /\ conv.result = 0
    /\ ~conv.inited
    /\ ~conv.reinit
    /\ decoder_ctx = "open"
    /\ ffmpeg_output_buffer = "live"

\* C27: alive changes only from true to false, and the step that changes it is
\* the signal handler's: it leaves every other variable of the program (position,
\* descriptors, devices, buffers, log, exit code) as it was.
C27_AliveOnlyClearedByHandler ==
    [][alive' # alive =>
         /\ alive /\ ~alive'
         /\ UNCHANGED <<cfgVars, devVars, convVars, loopVars, clockVars,
                        histVars, pc, ret, gp2_camera, stack, exit_code>>]_vars

\* the handler has run between two frames and the loop has not yet looked at alive
C27_Witness ==
    /\ ~alive
    /\ pc = "capture"
    /\ nframes >= 1
    /\ term = "none"

\* C28 as stated, in its finite form: a process that has ended after an interrupt
\* has ended by main returning, with main's value as exit code, and not by a
\* signal that killed it during cleanup (the trap of a zero frame rate, which
\* precedes the loop, is left aside).
C28_InterruptedRunReturnsFromMain ==
    (pc = "done" /\ ~alive /\ "div_by_zero" \notin ub) => exit_code \in {0, 1}

\* the cleanup of 2.0.1 runs
Teardown201 == pc = "cleanup" /\ variant = "v201" /\ pc' = "done"

\* cleanup issues LOOP_CTL_REMOVE: if (v4l2loopback_fd > 0) ioctl(..., v4l2_dev_num)
RemovalAttempted == Teardown201 /\ hist'.remove # "none"

\* C29 as stated: cleanup attempts the removal of the device this process has
\* created, for the number LOOP_CTL_ADD returned, and attempts no removal for a
\* number this process has not created.
C29_RemovesExactlyTheCreatedDevice ==
    [][/\ (Teardown201 /\ devices # {}) =>
             RemovalAttempted /\ devices = {v4l2_dev_num}
       /\ RemovalAttempted => v4l2_dev_num \in devices]_vars

\* the descriptors the process starts with
StdFds == {0, 1, 2}

\* main has returned: the process ended with main's value, not by a signal
MainReturned == pc = "done" /\ exit_code \in {0, 1}

\* C30 as stated: when main has returned, every descriptor the run has opened
\* (file sink, video device, control device) is closed, and the decoder, the
\* packet, the frames, the output buffer and the camera object are released.
C30_NothingOutlivesTheRun ==
    MainReturned =>
        /\ fds \subseteq StdFds
        /\ decoder_ctx = "null"
        /\ packet_obj = "null"
        /\ ~input_frame.alloc
        /\ ~output_frame.alloc
        /\ ffmpeg_output_buffer # "live"
        /\ gp2_camera = NoCamera

\* this step is the write() of the loop to the file sink
FileSinkWrite == pc = "sink" /\ wrote' = wrote + 1 /\ hist'.write.sink = "file"

\* this step is a cleanup whose if (file_sink) close(file_sink) closes a
\* descriptor that some open() has returned
FileSinkClose == pc = "cleanup" /\ pc' # pc /\ file_sink > 0

\* C31 as stated: no pointer is freed twice, the file sink is open when the
\* loop writes to it and when cleanup closes it, restarts of 2.0.0 included.
C31_NoReleaseOrUseAfterRelease ==
    [][/\ "double_free" \notin ub'
       /\ FileSinkWrite => file_sink \in fds
       /\ FileSinkClose => file_sink \in fds]_vars

\* the position of r in the sequence s
Pos(s, r) == CHOOSE i \in 1..Len(s) : s[i] = r

\* of two resources that were both acquired and both released, the one
\* acquired later has been released first
ReleasedInReverse(acq, rel) ==
    \A a, b \in Range(acq) \cap Range(rel) :
        Pos(acq, a) < Pos(acq, b) => Pos(rel, b) < Pos(rel, a)

\* the parts of cleanup: 1 the sinks and the device ("general", "v4l2"),
\* 2 the converter ("ffmpeg"), 3 the frame source and 4 the protocol context ("gphoto")
CleanupPart(r) ==
    IF r \in SinkResources THEN 1
    ELSE IF r \in {"buffer", "sws_ctx", "output_frame", "input_frame",
                   "decoder_ctx", "packet_obj"} THEN 2
    ELSE IF r \in {"camlist", "gp2_file", "camera"} THEN 3
    ELSE 4

\* the releases of rel go part by part: sinks and device, converter, frame
\* source, protocol context
ReleasedByPart(rel) ==
    \A i, j \in 1..Len(rel) : i < j => CleanupPart(rel[i]) <= CleanupPart(rel[j])

CaptureAttempt == pc = "capture" /\ nframes' = nframes + 1

\* C33 as stated: a capture is attempted only on a camera that gp_camera_init
\* has opened successfully in this run of main.
C33_CaptureOnlyAfterCameraInit ==
    [][CaptureAttempt => gp2_camera.state = "init"]_vars

\* the characters of s write a non-negative integer
NonNegativeInteger(s) == s # <<>> /\ AllDigits(s)

\* this step is main's call of cli on a command line that gives --device
CliWithDevice == pc = "cli" /\ ~optind_end /\ argv.d.given

\* C34 as stated: cli returns 1 for a --device argument that is not a
\* non-negative integer, so that main returns at once, and an argument that
\* cli accepts becomes the requested device number.
C34_DeviceArgumentValidated ==
    [][CliWithDevice =>
         /\ ~NonNegativeInteger(argv.d.arg) => pc' = "done" /\ exit_code' = 1
         /\ (NonNegativeInteger(argv.d.arg) /\ pc' # "done") =>
               v4l2_dev_num' = atoi(argv.d.arg)]_vars

====
